---- MODULE Spec2Model ----
(***************************************************************************)
(* Model of Handwrite.py: the text-layout engine of the text-to-handwriting *)
(* converter (word wrap, fit check, font-size search, line renderer with    *)
(* duplicate suppression, page composer).                                   *)
(*                                                                          *)
(* A Python string is a sequence of one-character strings.  A loaded font   *)
(* is represented by its point size; None is 0.  The measurements of        *)
(* draw.textbbox come from the font file, an input of the program: the      *)
(* modelled font has glyphs of one unit (a unit is one point size wide),    *)
(* a wide glyph W and a huge glyph X, a bounding box as high as the point   *)
(* size for a non-empty string and an empty box for the empty string.       *)
(***************************************************************************)
EXTENDS Integers, Sequences, FiniteSets

(* ------------------------------ bounds --------------------------------- *)
MaxBody == 2
MaxLongBody == 4
MaxParas == 2
MaxWidthUnits == 3
MaxBlankLines == 42
MaxCalls == 2
WideGlyphUnits == 31
HugeGlyphUnits == 170

(* ------------------------- program constants --------------------------- *)
A4Width == 2000
A4Height == 3000
HeadingFontSize == 120
PreviewFontSize == 100
MinFontSize == 10
Margin == 200
LineSpacing == 8
HeadingSpacing == 12
OriginX == 100
OriginY == 100
None == 0

StartFontSizeMut == 60 - 1
StartFontSize == 60

SP == " "
NL == "\n"
HeadingMarker == <<"#", "#", " ">>
BoldMarker == <<"*", "*">>
FontMsg == "Font file not found. Please check the path."
LayoutMsg == "Could not format the text to fit the page."

(* ------------------------- string primitives --------------------------- *)
Range(s) == {s[i] : i \in 1..Len(s)}

Drop(s, n) == SubSeq(s, n + 1, Len(s))

StartsWith(s, p) == Len(s) >= Len(p) /\ SubSeq(s, 1, Len(p)) = p

EndsWith(s, p) == Len(s) >= Len(p) /\ SubSeq(s, Len(s) - Len(p) + 1, Len(s)) = p

RECURSIVE LStrip(_)
LStrip(s) == IF s # <<>> /\ Head(s) = SP THEN LStrip(Tail(s)) ELSE s

RECURSIVE RStrip(_)
RStrip(s) ==
  IF s # <<>> /\ s[Len(s)] = SP THEN RStrip(SubSeq(s, 1, Len(s) - 1)) ELSE s

Strip(s) == RStrip(LStrip(s))

\* A loop over a list is a recursion on the list from the loop's state.  The
\* list is halved and the state after the first half is computed (the test
\* mid = mid) before the second half starts, which keeps the evaluation
\* shallow on a text of many lines.

\* The scan of s.split(sep): st.done holds the pieces closed so far, st.cur
\* the piece being read.
SplitChar(st, c, sep) ==
  IF c = sep THEN [done |-> Append(st.done, st.cur), cur |-> <<>>]
  ELSE [st EXCEPT !.cur = Append(@, c)]

RECURSIVE SplitChars(_, _, _)
SplitChars(st, s, sep) ==
  IF s = <<>> THEN st
  ELSE IF Len(s) = 1 THEN SplitChar(st, s[1], sep)
  ELSE LET h == Len(s) \div 2
           mid == SplitChars(st, SubSeq(s, 1, h), sep)
       IN  IF mid = mid THEN SplitChars(mid, SubSeq(s, h + 1, Len(s)), sep) ELSE mid

\* s.split(sep): the pieces between the occurrences of sep, empty ones kept.
SplitAt(s, sep) ==
  LET r == SplitChars([done |-> <<>>, cur |-> <<>>], s, sep)
  IN  Append(r.done, r.cur)

SplitLines(s) == SplitAt(s, NL)

RECURSIVE WordsFrom(_, _, _)
WordsFrom(s, i, cur) ==
  LET done == IF cur = <<>> THEN <<>> ELSE <<cur>>
  IN  IF i > Len(s) THEN done
      ELSE IF s[i] = SP THEN done \o WordsFrom(s, i + 1, <<>>)
      ELSE WordsFrom(s, i + 1, Append(cur, s[i]))

SplitWords(s) == WordsFrom(s, 1, <<>>)

RECURSIVE JoinOnto(_, _, _)
JoinOnto(acc, parts, sep) ==
  IF parts = <<>> THEN acc
  ELSE IF Len(parts) = 1 THEN acc \o sep \o parts[1]
  ELSE LET h == Len(parts) \div 2
           mid == JoinOnto(acc, SubSeq(parts, 1, h), sep)
       IN  IF mid = mid THEN JoinOnto(mid, SubSeq(parts, h + 1, Len(parts)), sep) ELSE mid

\* sep.join(parts)
Join(sep, parts) ==
  IF parts = <<>> THEN <<>> ELSE JoinOnto(parts[1], Tail(parts), sep)

(* ----------------------------- font metrics ---------------------------- *)
GlyphUnits(c) ==
  IF c = "W" THEN WideGlyphUnits ELSE IF c = "X" THEN HugeGlyphUnits ELSE 1

RECURSIVE LineUnits(_)
LineUnits(s) == IF s = <<>> THEN 0 ELSE GlyphUnits(Head(s)) + LineUnits(Tail(s))

TextWidth(line, f) == f * LineUnits(line)

TextHeight(line, f) == IF line = <<>> THEN 0 ELSE f

load_font(ok, size) == IF ok THEN size ELSE None

(* ------------------------- split_text_into_lines ----------------------- *)
ExceedsMut(w, max) == w >= max
Exceeds(w, max) == w > max

WrapWord(st, word, max_width, f) ==
  LET cl == Append(st.current_line, word)
  IN  IF Exceeds(TextWidth(Join(<<SP>>, cl), f), max_width)
      THEN [lines |-> Append(st.lines, Join(<<SP>>, st.current_line)),
            current_line |-> <<word>>]
      ELSE [lines |-> st.lines, current_line |-> cl]

RECURSIVE WrapWords(_, _, _, _)
WrapWords(st, words, max_width, f) ==
  IF words = <<>> THEN st
  ELSE IF Len(words) = 1 THEN WrapWord(st, words[1], max_width, f)
  ELSE LET h == Len(words) \div 2
           mid == WrapWords(st, SubSeq(words, 1, h), max_width, f)
       IN  IF mid = mid THEN WrapWords(mid, SubSeq(words, h + 1, Len(words)), max_width, f) ELSE mid

FlushCurrent(st) ==
  IF st.current_line # <<>>
  THEN [st EXCEPT !.lines = Append(@, Join(<<SP>>, st.current_line))]
  ELSE st

WrapParagraph(st, line, max_width, f) ==
  IF Strip(line) = <<>> THEN [st EXCEPT !.lines = Append(@, <<>>)]
  ELSE IF StartsWith(line, HeadingMarker)
  THEN LET fl == IF st.current_line # <<>>
                 THEN [lines |-> Append(st.lines, Join(<<SP>>, st.current_line)),
                       current_line |-> <<>>]
                 ELSE st
       IN  [fl EXCEPT !.lines = Append(@, Drop(line, 3))]
  ELSE FlushCurrent(WrapWords(st, SplitWords(line), max_width, f))

RECURSIVE WrapParagraphs(_, _, _, _)
WrapParagraphs(st, paras, max_width, f) ==
  IF paras = <<>> THEN st
  ELSE IF Len(paras) = 1 THEN WrapParagraph(st, paras[1], max_width, f)
  ELSE LET h == Len(paras) \div 2
           mid == WrapParagraphs(st, SubSeq(paras, 1, h), max_width, f)
       IN  IF mid = mid THEN WrapParagraphs(mid, SubSeq(paras, h + 1, Len(paras)), max_width, f) ELSE mid

split_text_into_lines(t, max_width, f) ==
  Join(<<NL>>,
       WrapParagraphs([lines |-> <<>>, current_line |-> <<>>],
                      SplitLines(t), max_width, f).lines)

(* --------------------------- text_fits_on_page ------------------------- *)
\* One iteration of the loop; st.fits becomes FALSE at the line where the
\* function returns False, and no later line changes it.
FitsLine(st, line, f, max_width, max_height) ==
  LET width == TextWidth(line, f)
      height == TextHeight(line, f)
  IN  IF ~st.fits THEN st
      ELSE IF width > max_width \/ st.current_height + height > max_height
      THEN [st EXCEPT !.fits = FALSE]
      ELSE [st EXCEPT !.current_height = @ + height + LineSpacing]

RECURSIVE FitsLines(_, _, _, _, _)
FitsLines(st, lines, f, max_width, max_height) ==
  IF lines = <<>> THEN st
  ELSE IF Len(lines) = 1 THEN FitsLine(st, lines[1], f, max_width, max_height)
  ELSE LET h == Len(lines) \div 2
           mid == FitsLines(st, SubSeq(lines, 1, h), f, max_width, max_height)
       IN  IF mid = mid THEN FitsLines(mid, SubSeq(lines, h + 1, Len(lines)), f, max_width, max_height) ELSE mid

text_fits_on_page(t, f, max_width, max_height) ==
  FitsLines([fits |-> TRUE, current_height |-> 0], SplitLines(t),
            f, max_width, max_height).fits

(* ------------------------------- draw_text ----------------------------- *)
InDrawnMut(line, drawn_lines) == FALSE
InDrawn(line, drawn_lines) == line \in drawn_lines

IsBold(line) == StartsWith(line, BoldMarker) /\ EndsWith(line, BoldMarker)

\* line[2:-2]
Unbold(line) == SubSeq(line, 3, Len(line) - 2)

\* One iteration of the loop over the lines.  st holds the loop's variables and
\* log, one record per iteration: the line, the branch taken, the cursor and
\* the drawn-set before and after, and the draw.text call made, if any (drew).
DrawLine(st, line, x, hf, f) ==
  LET rec(branch, dy, txt, fnt, added) ==
        [line |-> line, branch |-> branch, x |-> x, y0 |-> st.y, y1 |-> st.y + dy,
         set0 |-> st.drawn_lines,
         set1 |-> IF added THEN st.drawn_lines \cup {line} ELSE st.drawn_lines,
         prev0 |-> st.previous_line, drew |-> added, text |-> txt, font |-> fnt]
      skip(branch, dy) ==
        [st EXCEPT !.y = @ + dy, !.log = Append(@, rec(branch, dy, <<>>, None, FALSE))]
      put(branch, dy, txt, fnt) ==
        [y |-> st.y + dy, drawn_lines |-> st.drawn_lines \cup {line},
         previous_line |-> line, log |-> Append(st.log, rec(branch, dy, txt, fnt, TRUE))]
  IN  IF Strip(line) = <<>> THEN skip("empty", f + LineSpacing)
      ELSE IF InDrawn(line, st.drawn_lines) THEN skip("duplicate", 0)
      ELSE IF StartsWith(line, HeadingMarker)
      THEN put("heading", hf + HeadingSpacing, Drop(line, 3), hf)
      ELSE IF Strip(st.previous_line) = Strip(line) THEN skip("same_as_last", 0)
      ELSE IF IsBold(line) THEN put("bold", f + LineSpacing, Unbold(line), f)
      ELSE put("normal", f + LineSpacing, line, f)

RECURSIVE DrawLines(_, _, _, _, _)
DrawLines(st, lines, x, hf, f) ==
  IF lines = <<>> THEN st
  ELSE IF Len(lines) = 1 THEN DrawLine(st, lines[1], x, hf, f)
  ELSE LET h == Len(lines) \div 2
           mid == DrawLines(st, SubSeq(lines, 1, h), x, hf, f)
       IN  IF mid = mid THEN DrawLines(mid, SubSeq(lines, h + 1, Len(lines)), x, hf, f) ELSE mid

\* Returns the final y, the drawn-set (the object given, grown) and the log.
draw_text(ft, x, y0, hf, f, previous_lines) ==
  DrawLines([y |-> y0, drawn_lines |-> previous_lines, previous_line |-> <<>>,
             log |-> <<>>],
            SplitLines(ft), x, hf, f)

\* The records of the iterations that made a draw.text call.
DrawCalls(log) == SelectSeq(log, LAMBDA r : r.drew)

DrawnOf(log) == {log[i].line : i \in {j \in 1..Len(log) : log[j].drew}}

SkippedAsLastOf(log) ==
  {log[i].line : i \in {j \in 1..Len(log) : log[j].branch = "same_as_last"}}

(* ------------------------------- inputs -------------------------------- *)
Seqs(S, n) == UNION {[1..k -> S] : k \in 0..n}

\* A paragraph: a short body of words and spaces, possibly behind "## ".
Bodies == Seqs({SP, "a"}, MaxBody)

Paragraphs == Bodies \cup {HeadingMarker \o b : b \in Bodies}

\* The raw texts given to split_text_into_lines alone: a few paragraphs, or
\* one longer paragraph.
LongBodies == Seqs({SP, "a"}, MaxLongBody)

WrapTexts ==
  {Join(<<NL>>, ps) : ps \in Seqs(Paragraphs, MaxParas) \ {<<>>}}
    \cup LongBodies \cup {HeadingMarker \o b : b \in LongBodies}

\* The raw texts given to a conversion: one or two paragraphs, one paragraph
\* with wide glyphs, and blank lines followed by a word.
ShortTexts ==
  Paragraphs \cup {p \o <<NL>> \o q : p \in Paragraphs, q \in Paragraphs}

WideTexts == Seqs({SP, "a", "W", "X"}, MaxBody)

TallTexts == {[i \in 1..k |-> NL] \o <<"a">> : k \in {MaxBlankLines - 1, MaxBlankLines}}

PageTexts == ShortTexts \cup WideTexts \cup TallTexts

\* The sets a caller passes as previous_texts: a fresh one (line 169), or one
\* that holds a line already.
CallerSets == {{}, {<<"a">>}}

(* -------------------------------- state -------------------------------- *)
VARIABLES
  pc,              \* where the program is
  text,            \* the raw text
  max_width,       \* split_text_into_lines' max_width (when called alone)
  font_ok,         \* whether the font file of font_path can be loaded
  prev_ref,        \* the set object passed as previous_texts / previous_lines
  heap,            \* the contents of the set objects: the default argument's, the caller's
  heading_font,    \* text_to_handwriting's heading_font
  font,            \* text_to_handwriting's font; draw_text's font
  font_size,       \* adjust_font_size's font_size
  iters,           \* iterations of adjust_font_size's loop so far
  adjust_calls,    \* calls of adjust_font_size in this conversion
  formatted_text,  \* the wrapped text
  drawlog,         \* draw_text's iterations
  y,               \* draw_text's final y
  ret_ref,         \* the set object draw_text returned
  saved,           \* img.save(output_path) was called
  result,          \* what text_to_handwriting returned: "none", "None", "ok"
  errors,          \* the st.error messages of this conversion
  start_set,       \* the contents of the passed set when the conversion began
  call_no,         \* the number of this conversion
  earlier          \* history: the previous conversion, the lines drawn so far through the default set

vars == <<pc, text, max_width, font_ok, prev_ref, heap, heading_font, font, font_size,
          iters, adjust_calls, formatted_text, drawlog, y, ret_ref, saved, result,
          errors, start_set, call_no, earlier>>

NoEarlier ==
  [any |-> FALSE, text |-> <<>>, ref |-> "none", result |-> "none",
   skipped |-> {}, drawn |-> {}]

\* The variables of a conversion before it has done anything.
Fresh ==
  /\ heading_font = None /\ font = None /\ font_size = 0 /\ iters = 0
  /\ adjust_calls = 0 /\ formatted_text = <<>> /\ drawlog = <<>> /\ y = 0
  /\ ret_ref = "none" /\ saved = FALSE /\ result = "none" /\ errors = <<>>

(* ------------------- split_text_into_lines, called alone ---------------- *)
InitWrap ==
  /\ pc = "wrap"
  /\ text \in WrapTexts
  /\ font_size = StartFontSize
  /\ max_width \in {k * StartFontSize : k \in 1..MaxWidthUnits}
  /\ font_ok = TRUE /\ prev_ref = "none" /\ heap = [default |-> {}, caller |-> {}]
  /\ heading_font = None /\ font = StartFontSize /\ iters = 0 /\ adjust_calls = 0
  /\ formatted_text = <<>> /\ drawlog = <<>> /\ y = 0 /\ ret_ref = "none"
  /\ saved = FALSE /\ result = "none" /\ errors = <<>> /\ start_set = {}
  /\ call_no = 0 /\ earlier = NoEarlier

Wrap ==
  /\ pc = "wrap"
  /\ formatted_text' = split_text_into_lines(text, max_width, font)
  /\ pc' = "wrapped"
  /\ UNCHANGED <<text, max_width, font_ok, prev_ref, heap, heading_font, font,
                 font_size, iters, adjust_calls, drawlog, y, ret_ref, saved, result,
                 errors, start_set, call_no, earlier>>

NextWrap == Wrap

SpecWrap == InitWrap /\ [][NextWrap]_vars

(* ------------------------ draw_text, called alone ----------------------- *)
\* A line of a formatted text: plain, a heading or bold.
Lines ==
  Bodies \cup {HeadingMarker \o b : b \in Bodies}
         \cup {BoldMarker \o b \o BoldMarker : b \in Bodies}

FormattedTexts == {Join(<<NL>>, ls) : ls \in Seqs(Lines, MaxParas) \ {<<>>}}

InitDraw ==
  /\ pc = "render"
  /\ formatted_text \in FormattedTexts
  /\ prev_ref = "caller"
  /\ heap \in {[default |-> {}, caller |-> c] : c \in {{}} \cup {{l} : l \in Lines}}
  /\ start_set = heap.caller
  /\ heading_font = HeadingFontSize /\ font = StartFontSize
  /\ text = <<>> /\ max_width = 0 /\ font_ok = TRUE /\ font_size = 0 /\ iters = 0
  /\ adjust_calls = 0 /\ drawlog = <<>> /\ y = 0 /\ ret_ref = "none"
  /\ saved = FALSE /\ result = "none" /\ errors = <<>>
  /\ call_no = 0 /\ earlier = NoEarlier

\* draw_text (lines 70-108) on the set object prev_ref names: drawn_lines is
\* that object (line 74), so what is added is added to it.
Render(next) ==
  LET r == draw_text(formatted_text, OriginX, OriginY, heading_font, font, heap[prev_ref])
  IN  /\ heap' = [heap EXCEPT ![prev_ref] = r.drawn_lines]
      /\ ret_ref' = prev_ref
      /\ drawlog' = r.log
      /\ y' = r.y
      /\ pc' = next

RenderAlone ==
  /\ pc = "render"
  /\ Render("rendered")
  /\ UNCHANGED <<text, max_width, font_ok, prev_ref, heading_font, font, font_size,
                 iters, adjust_calls, formatted_text, saved, result, errors,
                 start_set, call_no, earlier>>

NextDraw == RenderAlone

SpecDraw == InitDraw /\ [][NextDraw]_vars

(* --------------------------- text_to_handwriting ------------------------ *)
\* The text wrapped at font f, and whether it fits (lines 64-65).
WrappedAt(t, f) == split_text_into_lines(t, A4Width - Margin, f)

FitsAt(t, f) ==
  text_fits_on_page(WrappedAt(t, f), f, A4Width - Margin, A4Height - Margin)

InitPage ==
  /\ pc = "start"
  /\ text \in PageTexts
  /\ font_ok \in BOOLEAN
  /\ prev_ref \in {"default", "caller"}
  /\ heap \in {[default |-> {}, caller |-> c] :
                 c \in IF prev_ref = "caller" THEN CallerSets ELSE {{}}}
  /\ start_set = heap[prev_ref]
  /\ max_width = A4Width
  /\ Fresh
  /\ call_no = 1 /\ earlier = NoEarlier

\* Lines 112-122: the page, the two preview fonts, the early return when the
\* font cannot be loaded, else the call of adjust_font_size (line 61).
LoadFonts ==
  /\ pc = "start"
  /\ LET hf == load_font(font_ok, HeadingFontSize)
         bf == load_font(font_ok, PreviewFontSize)
     IN  /\ heading_font' = hf
         /\ font' = bf
         /\ errors' = errors \o (IF hf = None THEN <<FontMsg>> ELSE <<>>)
                             \o (IF bf = None THEN <<FontMsg>> ELSE <<>>)
         /\ IF hf = None \/ bf = None
            THEN /\ result' = "None" /\ pc' = "done"
                 /\ UNCHANGED <<font_size, adjust_calls>>
            ELSE /\ pc' = "adjust" /\ font_size' = StartFontSize
                 /\ adjust_calls' = adjust_calls + 1
                 /\ UNCHANGED result
  /\ UNCHANGED <<text, max_width, font_ok, prev_ref, heap, iters, formatted_text,
                 drawlog, y, ret_ref, saved, start_set, call_no, earlier>>

\* An iteration of the loop of adjust_font_size that returns (lines 62-66).
AdjustFit ==
  /\ pc = "adjust"
  /\ font_size > MinFontSize
  /\ LET f == load_font(font_ok, font_size)
     IN  /\ FitsAt(text, f)
         /\ formatted_text' = WrappedAt(text, f)
         /\ font' = f
  /\ iters' = iters + 1
  /\ pc' = "layout"
  /\ UNCHANGED <<text, max_width, font_ok, prev_ref, heap, heading_font, font_size,
                 adjust_calls, drawlog, y, ret_ref, saved, result, errors, start_set,
                 call_no, earlier>>

\* An iteration that goes on to the next size (lines 62-67).
AdjustShrink ==
  /\ pc = "adjust"
  /\ font_size > MinFontSize
  /\ ~FitsAt(text, load_font(font_ok, font_size))
  /\ font_size' = font_size - 1
  /\ iters' = iters + 1
  /\ UNCHANGED <<pc, text, max_width, font_ok, prev_ref, heap, heading_font, font,
                 adjust_calls, formatted_text, drawlog, y, ret_ref, saved, result,
                 errors, start_set, call_no, earlier>>

\* The loop ends without a size (line 68).
AdjustGiveUp ==
  /\ pc = "adjust"
  /\ ~(font_size > MinFontSize)
  /\ formatted_text' = <<>>
  /\ font' = None
  /\ pc' = "layout"
  /\ UNCHANGED <<text, max_width, font_ok, prev_ref, heap, heading_font, font_size,
                 iters, adjust_calls, drawlog, y, ret_ref, saved, result, errors,
                 start_set, call_no, earlier>>

\* not formatted_text or not font (line 124)
LayoutFailedMut(ft, f) == FALSE
LayoutFailed(ft, f) == ft = <<>> \/ f = None

\* Lines 124-126.
CheckLayout ==
  /\ pc = "layout"
  /\ IF LayoutFailed(formatted_text, font)
     THEN /\ errors' = Append(errors, LayoutMsg)
          /\ result' = "None"
          /\ pc' = "done"
     ELSE /\ pc' = "draw"
          /\ UNCHANGED <<errors, result>>
  /\ UNCHANGED <<text, max_width, font_ok, prev_ref, heap, heading_font, font,
                 font_size, iters, adjust_calls, formatted_text, drawlog, y, ret_ref,
                 saved, start_set, call_no, earlier>>

\* Line 128.
Draw ==
  /\ pc = "draw"
  /\ Render("save")
  /\ UNCHANGED <<text, max_width, font_ok, prev_ref, heading_font, font, font_size,
                 iters, adjust_calls, formatted_text, saved, result, errors,
                 start_set, call_no, earlier>>

\* Lines 129-130.
SaveAndReturn ==
  /\ pc = "save"
  /\ saved' = TRUE
  /\ result' = "ok"
  /\ pc' = "done"
  /\ UNCHANGED <<text, max_width, font_ok, prev_ref, heap, heading_font, font,
                 font_size, iters, adjust_calls, formatted_text, drawlog, y, ret_ref,
                 errors, start_set, call_no, earlier>>

Convert ==
  \/ LoadFonts
  \/ AdjustFit
  \/ AdjustShrink
  \/ AdjustGiveUp
  \/ CheckLayout
  \/ Draw
  \/ SaveAndReturn

Next == Convert

Spec == InitPage /\ [][Next]_vars

(* ------------------------- repeated conversions ------------------------- *)
InitRepeat ==
  /\ pc = "start"
  /\ text \in ShortTexts \cup WideTexts
  /\ font_ok \in BOOLEAN
  /\ prev_ref \in {"default", "caller"}
  /\ heap = [default |-> {}, caller |-> {}]
  /\ start_set = {}
  /\ max_width = A4Width
  /\ Fresh
  /\ call_no = 1 /\ earlier = NoEarlier

\* The caller converts again, with the same font: the same text or one of its
\* paragraphs, through the default previous_texts (line 110) or with a fresh
\* set of its own (line 169).  The default argument's set is the one object
\* made when the function was defined, so it is as the last call left it.
Again ==
  /\ pc = "done"
  /\ call_no < MaxCalls
  /\ call_no' = call_no + 1
  /\ earlier' = [any |-> TRUE, text |-> text, ref |-> prev_ref, result |-> result,
                 skipped |-> SkippedAsLastOf(drawlog),
                 drawn |-> earlier.drawn \cup
                           (IF prev_ref = "default" THEN DrawnOf(drawlog) ELSE {})]
  /\ text' \in {text} \cup Range(SplitLines(text))
  /\ \E ref \in {"default", "caller"} :
       /\ prev_ref' = ref
       /\ start_set' = IF ref = "default" THEN heap.default ELSE {}
  /\ heap' = [heap EXCEPT !.caller = {}]
  /\ pc' = "start"
  /\ heading_font' = None /\ font' = None /\ font_size' = 0 /\ iters' = 0
  /\ adjust_calls' = 0 /\ formatted_text' = <<>> /\ drawlog' = <<>> /\ y' = 0
  /\ ret_ref' = "none" /\ saved' = FALSE /\ result' = "none" /\ errors' = <<>>
  /\ UNCHANGED <<max_width, font_ok>>

NextRepeat == Convert \/ Again

SpecRepeat == InitRepeat /\ [][NextRepeat]_vars

(* =============================== claims ================================ *)
\* The sequences of ss, one after the other.
Flatten(ss) == JoinOnto(<<>>, ss, <<>>)

\* The words of a raw text in order, a paragraph's leading "## " left out.
InputWords(t) ==
  LET ps == SplitLines(t)
  IN  Flatten([i \in 1..Len(ps) |->
                 IF StartsWith(ps[i], HeadingMarker)
                 THEN SplitWords(Drop(ps[i], 3)) ELSE SplitWords(ps[i])])

\* The words read off the lines of a wrapped text, in line order.
OutputWords(ft) ==
  LET ls == SplitLines(ft) IN Flatten([i \in 1..Len(ls) |-> SplitWords(ls[i])])

IsSingleWord(t) == t # <<>> /\ SP \notin Range(t) /\ NL \notin Range(t)

\* No size of 11..60 is one at which the text, wrapped at it, fits the page.
NoSizeFits(t) == \A s \in 11..60 : ~FitsAt(t, s)

\* C1 (SpecWrap): the words read off the lines split_text_into_lines returns
\* are the words of the input in order, each once (only a leading "## " is
\* removed).
C1_WordOrderPreserved ==
  pc = "wrapped" => OutputWords(formatted_text) = InputWords(text)

\* C4 (SpecWrap): a raw text that is one word wider than max_width comes back
\* as that word alone, the only line of the output.
C4_OversizedWordAlone ==
  (pc = "wrapped" /\ IsSingleWord(text) /\ TextWidth(text, font) > max_width)
    => formatted_text = text

\* C9 as stated (SpecWrap): a raw text with no newline and of width at most
\* max_width comes back unchanged.
C9_ShortTextUnchanged ==
  (pc = "wrapped" /\ NL \notin Range(text) /\ TextWidth(text, font) <= max_width)
    => formatted_text = text

\* C9 as amended (SpecWrap): a raw text with no newline that does not start
\* with "## ", that is its words joined by single spaces, and of which every
\* leading run of words (the whole text included) is at most max_width wide,
\* comes back unchanged.
C9_NormalisedShortTextUnchanged ==
  LET ws == SplitWords(text)
  IN  (/\ pc = "wrapped"
       /\ NL \notin Range(text)
       /\ ~StartsWith(text, HeadingMarker)
       /\ text = Join(<<SP>>, ws)
       /\ \A k \in 1..Len(ws) :
            TextWidth(Join(<<SP>>, SubSeq(ws, 1, k)), font) <= max_width)
        => formatted_text = text

\* Two words that fill max_width exactly have come back unchanged.
C9_Witness ==
  /\ pc = "wrapped"
  /\ Len(SplitWords(text)) = 2
  /\ text = Join(<<SP>>, SplitWords(text))
  /\ TextWidth(text, font) = max_width
  /\ formatted_text = text

\* C5 (SpecDraw): a non-empty line that is in the drawn-set when draw_text
\* reaches it, or that equals after trimming the line drawn last, makes no
\* draw call, leaves y where it was and leaves the drawn-set as it was.
C5_DuplicateHasNoEffect ==
  pc = "rendered" =>
    \A i \in 1..Len(drawlog) :
      LET r == drawlog[i]
      IN  (Strip(r.line) # <<>> /\ (r.line \in r.set0 \/ Strip(r.prev0) = Strip(r.line)))
            => (~r.drew /\ r.y1 = r.y0 /\ r.set1 = r.set0)

\* C2 (Spec): when the first paragraph of the raw text is a heading ("## "
\* and a title) and nothing was drawn before, the conversion draws the title
\* with heading_font and moves the cursor by heading_font.size + 12, and it
\* draws every other line with the body font, moving by font.size + 8.
C2_HeadingDrawnWithHeadingFont ==
  LET p == SplitLines(text)[1]
      calls == DrawCalls(drawlog)
  IN  (/\ pc = "done" /\ result = "ok" /\ start_set = {}
       /\ StartsWith(p, HeadingMarker) /\ Strip(Drop(p, 3)) # <<>>)
        => /\ calls # <<>>
           /\ calls[1].text = Drop(p, 3)
           /\ calls[1].font = heading_font
           /\ calls[1].y1 - calls[1].y0 = heading_font + HeadingSpacing
           /\ \A i \in 2..Len(calls) :
                calls[i].font = font /\ calls[i].y1 - calls[i].y0 = font + LineSpacing

\* C3 (Spec): every line of a text that passed the fit check is drawn with
\* the cursor at most page height - 200 below the origin.
C3_DrawnInsidePage ==
  \A i \in 1..Len(drawlog) :
    drawlog[i].drew => drawlog[i].y0 - OriginY <= A4Height - Margin

\* C6 (Spec): for an empty or whitespace-only raw text the conversion calls
\* adjust_font_size not at all and does not report the layout failure.
C6_EmptyRejectedBeforeLayout ==
  Range(text) \subseteq {SP} =>
    (adjust_calls = 0 /\ LayoutMsg \notin Range(errors))

\* C7 (Spec): adjust_font_size tries 60, 59, ..., 11 in that order (after k
\* iterations it is at size 60 - k, and the size it tried last did not fit),
\* returns the text wrapped at the largest size of 11..60 that fits with that
\* font, returns ("", None) exactly when no size of 11..60 fits, and makes at
\* most 50 iterations.
C7_LargestFittingSize ==
  /\ iters <= 50
  /\ pc = "adjust" =>
       /\ font_size = 60 - iters
       /\ font_size >= 10
       /\ iters > 0 => ~FitsAt(text, font_size + 1)
  /\ pc = "layout" =>
       IF NoSizeFits(text)
       THEN formatted_text = <<>> /\ font = None
       ELSE /\ font \in 11..60
            /\ FitsAt(text, font)
            /\ \A s \in (font + 1)..60 : ~FitsAt(text, s)
            /\ formatted_text = WrappedAt(text, font)

\* adjust_font_size has returned a size below 60 after iterations that did not fit.
C7_Witness ==
  pc = "layout" /\ font # None /\ font < 60 /\ iters = 60 - font + 1

\* C8 (Spec): when the font cannot be loaded or no size of 11..60 fits, the
\* conversion returns None with draw_text not called, no image saved and the
\* passed drawn-lines set as it was.
C8_NoPartialOutputOnFailure ==
  LET failed == ~font_ok \/ NoSizeFits(text)
      nothing_done == /\ drawlog = <<>> /\ ret_ref = "none"
                      /\ ~saved
                      /\ heap[prev_ref] = start_set
                      /\ pc = "done" => result = "None"
  IN  ~nothing_done => ~failed

\* A conversion with a loadable font and a caller's set that holds a line has
\* ended in the layout failure.
C8_Witness ==
  /\ pc = "done" /\ font_ok
  /\ prev_ref = "caller" /\ start_set # {}
  /\ result = "None" /\ LayoutMsg \in Range(errors)
  /\ NoSizeFits(text)

\* The set draw_text returns is the object it was given, grown by the lines
\* drawn; the default set keeps every line drawn through it, and a conversion
\* through the default set draws no line drawn through it before.
C10_DefaultSetAccumulates ==
  /\ ret_ref # "none" =>
       /\ ret_ref = prev_ref
       /\ heap[prev_ref] = start_set \cup DrawnOf(drawlog)
  /\ earlier.drawn \subseteq heap.default
  /\ prev_ref = "default" => DrawnOf(drawlog) \cap earlier.drawn = {}

\* This conversion has ended and repeats, through the default set, the text
\* of the conversion before it, which went through the default set and succeeded.
C10_SameTextAgain ==
  /\ pc = "done" /\ earlier.any
  /\ earlier.text = text /\ earlier.result = "ok"
  /\ earlier.ref = "default" /\ prev_ref = "default"

\* C10 as stated (SpecRepeat): the default set accumulates, so a line drawn in
\* an earlier conversion is skipped in a later one, and converting the same
\* text twice draws no line the second time, saves an image and succeeds.
C10_RepeatDrawsNothing ==
  /\ C10_DefaultSetAccumulates
  /\ C10_SameTextAgain =>
       (DrawCalls(drawlog) = <<>> /\ saved /\ result = "ok")

\* C10 as amended (SpecRepeat): the same, but converting the same text twice
\* draws the second time only lines the first conversion left out as equal,
\* after trimming, to the line drawn before them (no line drawn the first time).
C10_RepeatDrawsOnlySkipped ==
  /\ C10_DefaultSetAccumulates
  /\ C10_SameTextAgain =>
       /\ DrawnOf(drawlog) \subseteq earlier.skipped
       /\ DrawnOf(drawlog) \cap earlier.drawn = {}
       /\ saved /\ result = "ok"

\* The second conversion of a text whose lines were drawn the first time has
\* ended with no draw call.
C10_Witness ==
  /\ C10_SameTextAgain
  /\ earlier.drawn # {}
  /\ DrawCalls(drawlog) = <<>>
  /\ saved /\ result = "ok"

====
